---- MODULE Spec2Model ----
(***************************************************************************)
(* Canvas synchronisation layer of canvas-retry                            *)
(* (web-app/src/lib/services/canvas-service.ts) over the relational store  *)
(* of web-app/sql/schema.sql.                                              *)
(*                                                                         *)
(* One step of a sync run is one await of the source: the awaited database *)
(* statement or HTTP response takes effect, and the JavaScript that        *)
(* follows it runs up to the next await.  The Canvas server, the clock and *)
(* the callers are the environment.  The database client resolves every    *)
(* statement to {data, error} and the source never reads error.  The       *)
(* service is constructed with a client (line 179): Spec and SpecTimer run *)
(* it with one that bypasses row-level security, SpecSession with the      *)
(* client of the web application, which is held to the policies of         *)
(* schema.sql.                                                             *)
(***************************************************************************)
EXTENDS Integers, Sequences, FiniteSets, TLC

\* ---------------------------------------------------------------- bounds
MaxCourses == 2
MaxRuns == 2
MaxChanges == 1
MaxEditChanges == 2
MaxTime == 6
NumConns == 2

\* ------------------------------------------------------- program constants
\* 2 * 60 * 60 * 1000 ms, in hours
TwoHours == 2
\* new Date(0)
Epoch == 0

Null == -1

ConnIds == 1..NumConns
CourseIds == 1..MaxCourses
RunIds == 1..MaxRuns
Users == {1, 2}

\* canvas_connections.user_id of the connections the settings page stored
Owner(c) == IF c <= 2 THEN 1 ELSE 2

VARIABLES
  now,        \* the clock, in hours
  remote,     \* the Canvas instance: reachable, its courses, the courses it refuses, data version
  changes,    \* how often the Canvas instance changed
  conns,      \* table canvas_connections
  courses,    \* table courses
  assignments,\* table assignments
  grades,     \* table grades
  logs,       \* table sync_logs
  runs,       \* the calls of syncCanvasData
  inflight,   \* Canvas HTTP requests sent and not yet answered
  console,    \* courses whose failure getFullSyncData wrote to the console, per run
  sched,      \* the call of scheduleBackgroundSync
  vault,      \* one use of CanvasTokenManager: a token encrypted, stored and decrypted
  client      \* the Supabase client the service was constructed with

\* the state of the synchronisation layer
syncVars == <<now, remote, changes, conns, courses, assignments, grades, logs, runs,
              inflight, console, sched, vault, client>>

VARIABLES
  connections,\* table canvas_connections as the settings page reads and writes it
  mutation,   \* the last mutation of the settings page and its outcome
  http,       \* the request a route handler is serving, and its response
  detect,     \* the call of ConflictResolutionService.detectConflicts
  access,     \* the last statement a user session sent to the store, and its outcome
  api         \* the calls of one CanvasAPI object, the last one with its fetch and outcome

\* the state of the web tier (pages and route handlers) and of single calls of the services
webVars == <<connections, mutation, http, detect, access, api>>

vars == <<syncVars, webVars>>

\* ------------------------------------------------------------ Canvas data
\* What Canvas holds for course k: /courses/k/assignments and /courses/k/enrollments
AsgOf(k) == IF k = 1 THEN {11, 12} ELSE {10 * k + 1}
GradeOf(k) == IF k % 2 = 1 THEN {100 + k} ELSE {}

\* due_at, submitted_at and graded_at of the assignments Canvas returns: absent, in
\* the past (1, 2) or later than every time of the clock
Dates ==
  <<[due_at |-> MaxTime + 1, submitted_at |-> Null, graded_at |-> Null],
    [due_at |-> 1, submitted_at |-> 2, graded_at |-> 2],
    [due_at |-> MaxTime + 1, submitted_at |-> Null, graded_at |-> 2],
    [due_at |-> Null, submitted_at |-> Null, graded_at |-> Null],
    [due_at |-> 1, submitted_at |-> Null, graded_at |-> Null],
    [due_at |-> 1, submitted_at |-> 2, graded_at |-> Null]>>

\* the assignment id of course k in the data version ver, as /courses/k/assignments returns it
CanvasAssignmentOf(id, k, ver) ==
  LET d == Dates[(((id % 10) + 2 * (id \div 10) + 3 * ver) % 6) + 1]
  IN [id |-> id, course_id |-> k, ver |-> ver, due_at |-> d.due_at,
      submitted_at |-> d.submitted_at, graded_at |-> d.graded_at]

RECURSIVE SetToSeq(_)
SetToSeq(S) ==
  IF S = {} THEN <<>>
  ELSE LET m == CHOOSE x \in S : \A y \in S : x <= y
       IN <<m>> \o SetToSeq(S \ {m})

RemoteStates ==
  {rs \in [up : BOOLEAN, courses : SUBSET CourseIds, err : SUBSET CourseIds, ver : 0..MaxChanges] :
     rs.err \subseteq rs.courses}

\* response.ok of a request about course k (CanvasAPI.request)
CourseRequestOk(k) == remote.up /\ k \in remote.courses /\ k \notin remote.err

EmptyData == [courses |-> <<>>, assignments |-> <<>>, grades |-> <<>>]

NoCourse == [id |-> 0, ver |-> 0]

NoRun == [pc |-> "unused", conn |-> 0, todo |-> <<>>, cur |-> NoCourse, got |-> {},
          data |-> EmptyData, i |-> 0, items |-> 0, cmap |-> {}, err |-> "",
          trail |-> <<>>]

NoSched == [pc |-> "idle", user |-> 0, queue |-> <<>>, run |-> 0, started |-> {}, due |-> {}]

\* ----------------------------------------------------------- token vault
MaxLen == 2

Bytes == 0..3
Tokens == UNION {[1..n -> Bytes] : n \in 0..MaxLen}
\* generateSalt(): random bytes
Salts == {<<0>>, <<1>>, <<2>>}
\* ENCRYPTION_KEY of the process: CANVAS_ENCRYPTION_KEY or random bytes
Keys == {<<1>>, <<2>>}

GenericError == "Failed to decrypt Canvas token"
AuthError == "Unsupported state or unable to authenticate data"

NoTag == -1

Xor(a, b) == (((a \div 2) + (b \div 2)) % 2) * 2 + ((a + b) % 2)

RECURSIVE Digest(_)
\* the key and IV that createCipher/createDecipher derive from the password alone
Digest(password) ==
  IF password = <<>> THEN 1
  ELSE (3 * Digest(Tail(password)) + Head(password) + 1) % 4

\* counter mode: the key stream of block j
KeyStream(k, j) == (k + j) % 4

\* 'hex' output encoding: two digits per byte
ToHex(bytes) ==
  [j \in 1..(2 * Len(bytes)) |->
     IF j % 2 = 1 THEN bytes[(j + 1) \div 2] \div 2 ELSE bytes[j \div 2] % 2]

\* 'hex' input encoding
FromHex(digits) ==
  [j \in 1..(Len(digits) \div 2) |-> 2 * digits[2 * j - 1] + digits[2 * j]]

\* cipher.update / decipher.update in aes-256-gcm: XOR with the key stream
GcmUpdate(k, bytes) == [j \in 1..Len(bytes) |-> Xor(bytes[j], KeyStream(k, j))]

RECURSIVE SumSeq(_)
SumSeq(q) == IF q = <<>> THEN 0 ELSE Head(q) + SumSeq(Tail(q))

\* the authentication tag of a ciphertext under a key
GcmTag(k, cipherBytes) == (k + SumSeq(cipherBytes) + Len(cipherBytes)) % 4

\* crypto.createCipher(ENCRYPTION_ALGORITHM, ENCRYPTION_KEY + salt)
createCipher(key, salt) == [k |-> Digest(key \o salt), authTag |-> NoTag]

\* crypto.createDecipher(...): setAuthTag is never called, so the decipher holds no tag
createDecipher(key, salt) == [k |-> Digest(key \o salt), authTag |-> NoTag]

\* a final() that does not authenticate
finalUnchecked(decipher, cipherBytes) == [ok |-> TRUE, error |-> ""]

\* decipher.final(): in an authenticated mode it throws unless the tag it was
\* given matches the ciphertext
decipherFinal(decipher, cipherBytes) ==
  IF decipher.authTag # NoTag /\ decipher.authTag = GcmTag(decipher.k, cipherBytes)
  THEN [ok |-> TRUE, error |-> ""]
  ELSE [ok |-> FALSE, error |-> AuthError]

\* encryptToken(token, salt): update + final as hex; getAuthTag is never read
encryptToken(token, salt, key) ==
  LET cipher == createCipher(key, salt)
  IN ToHex(GcmUpdate(cipher.k, token))

\* decryptToken(encryptedToken, salt): the decrypted string, or the generic error
decryptToken(encryptedToken, salt, key) ==
  LET decipher == createDecipher(key, salt)
      cipherBytes == FromHex(encryptedToken)
      final == decipherFinal(decipher, cipherBytes)
  IN IF final.ok
     THEN [ok |-> TRUE, value |-> GcmUpdate(decipher.k, cipherBytes), error |-> ""]
     ELSE [ok |-> FALSE, value |-> <<>>, error |-> GenericError]

NoResult == [ok |-> FALSE, value |-> <<>>, error |-> ""]

NoVault == [pc |-> "none", token |-> <<>>, salt |-> <<>>, key |-> <<>>, stored |-> <<>>,
            readSalt |-> <<>>, readKey |-> <<>>, out |-> NoResult]

\* ------------------------------------------------------------- the store
\* UNIQUE constraints of schema.sql, by table
UniqueOn ==
  [canvas_connections |-> {<<"user_id", "canvas_url">>},
   courses |-> {<<"canvas_connection_id", "canvas_course_id">>},
   assignments |-> {<<"course_id", "canvas_assignment_id">>},
   grades |-> {}]

KeyOf(cols, row) == [j \in 1..Len(cols) |-> row[cols[j]]]

\* a conflict that keeps the existing row (ON CONFLICT DO NOTHING)
KeepOld(old, new) == old

\* a conflict that replaces the row: the columns the statement does not name fall back
\* to their defaults
ReplaceRow(old, new) ==
  [f \in DOMAIN old |->
     IF f \in DOMAIN new THEN new[f]
     ELSE IF f = "color" THEN "#3b82f6"
     ELSE IF f = "is_favorite" THEN FALSE
     ELSE IF f = "credits" THEN Null
     ELSE old[f]]

\* ON CONFLICT DO UPDATE SET <the columns of the statement>
Merge(old, new) == [f \in DOMAIN old |-> IF f \in DOMAIN new THEN new[f] ELSE old[f]]

\* an upsert that never finds the existing row
InsertOnly(table, rows, onConflict, new, defaults) == rows \cup {Merge(defaults, new)}

\* supabase .upsert(new, {onConflict}): INSERT ... ON CONFLICT (onConflict) DO UPDATE.
\* A conflict target that no unique constraint of the table matches makes the
\* database reject the statement; the client resolves to {error} and no row is written.
Upsert(table, rows, onConflict, new, defaults) ==
  IF onConflict \notin UniqueOn[table] THEN rows
  ELSE LET same == {old \in rows : KeyOf(onConflict, old) = KeyOf(onConflict, new)}
       IN IF same # {}
          THEN {IF old \in same THEN Merge(old, new) ELSE old : old \in rows}
          ELSE rows \cup {Merge(defaults, new)}

\* id UUID DEFAULT gen_random_uuid(): a fresh id, written as the row's key and
\* the number of rows that already carry the key
FreshId(rows, cols, new) ==
  <<KeyOf(cols, new), Cardinality({old \in rows : KeyOf(cols, old) = KeyOf(cols, new)})>>

\* ----------------------------------------------------- row-level security
\* CREATE POLICY ... ON <table> FOR <cmd> USING / WITH CHECK (auth.uid() = <col>)
Policies ==
  [profiles |-> {[cmd |-> "SELECT", col |-> "id"], [cmd |-> "UPDATE", col |-> "id"],
                 [cmd |-> "INSERT", col |-> "id"]},
   canvas_connections |-> {[cmd |-> "ALL", col |-> "user_id"]},
   courses |-> {[cmd |-> "ALL", col |-> "user_id"]},
   assignments |-> {[cmd |-> "ALL", col |-> "user_id"]},
   grades |-> {[cmd |-> "ALL", col |-> "user_id"]},
   study_sessions |-> {[cmd |-> "ALL", col |-> "user_id"]},
   notifications |-> {[cmd |-> "ALL", col |-> "user_id"]},
   schedule_events |-> {[cmd |-> "ALL", col |-> "user_id"]},
   reminders |-> {[cmd |-> "ALL", col |-> "user_id"]},
   sync_logs |-> {[cmd |-> "SELECT", col |-> "user_id"], [cmd |-> "INSERT", col |-> "user_id"]},
   grade_predictions |-> {[cmd |-> "ALL", col |-> "user_id"]},
   analytics_daily |-> {[cmd |-> "ALL", col |-> "user_id"]}]

\* row-level security is enabled on the table: a statement cmd of the session of
\* user uid reaches a row only if some policy of the table for cmd accepts the row
Permits(table, cmd, uid, row) ==
  \E p \in Policies[table] : p.cmd \in {"ALL", cmd} /\ row[p.col] = uid

\* the statement cmd of the service's client reaches the row: a service-role client
\* bypasses row-level security, the client of a user session is held to the policies
Reaches(table, cmd, uid, row) ==
  client = "service_role" \/ Permits(table, cmd, uid, row)

\* ------------------------------------------------------------ a sync run
Mark(run, label) ==
  IF run.trail # <<>> /\ run.trail[Len(run.trail)] = label THEN run
  ELSE [run EXCEPT !.trail = Append(@, label)]

Req(r, kind, k) == [run |-> r, kind |-> kind, course |-> k]

Unused == {r \in RunIds : runs[r].pc = "unused"}
FreshRun == IF Unused = {} THEN 0 ELSE CHOOSE r \in Unused : \A q \in Unused : r <= q

\* syncCanvasData is called: the insert into sync_logs is sent
Begin(c) == [NoRun EXCEPT !.pc = "insert_log", !.conn = c]

\* an exception inside the try block: the catch block sends its update of sync_logs
Throw(run, msg) == [run EXCEPT !.pc = "catch_log", !.err = msg]

\* a run that goes from its upserts to the update of sync_logs
AfterUpsertsLog == "upd_log"

\* the operation a run sends once its upsert loops are over
AfterUpserts == "upd_conn"

MappedIds(run) == {p[1] : p \in run.cmap}
CourseRowId(run, k) == (CHOOSE p \in run.cmap : p[1] = k)[2]

\* the next element of seq, from index from on, whose course is in courseMap (0: none)
NextMapped(run, seq, from) ==
  LET ok == {j \in from..Len(seq) : seq[j].course_id \in MappedIds(run)}
  IN IF ok = {} THEN 0 ELSE CHOOSE j \in ok : \A q \in ok : j <= q

EnterGrades(run, from) ==
  LET j == NextMapped(run, run.data.grades, from)
  IN IF j = 0 THEN [run EXCEPT !.pc = AfterUpserts, !.i = 0]
     ELSE [run EXCEPT !.pc = "up_grade", !.i = j]

EnterAssignments(run, from) ==
  LET j == NextMapped(run, run.data.assignments, from)
  IN IF j = 0 THEN EnterGrades(run, 1)
     ELSE [run EXCEPT !.pc = "up_asg", !.i = j]

\* getFullSyncData returned: the first loop of upserts starts
EnterUpserts(run) ==
  IF run.data.courses # <<>> THEN [run EXCEPT !.pc = "up_course", !.i = 1, !.cur = NoCourse, !.got = {}]
  ELSE [run EXCEPT !.pc = "select", !.i = 0, !.cur = NoCourse, !.got = {}]

\* the for loop of getFullSyncData moves on: Promise.all of the next course, or return
NextCourse(run) ==
  IF run.todo = <<>> THEN EnterUpserts(run)
  ELSE [run EXCEPT !.pc = "fetch", !.cur = Head(run.todo), !.todo = Tail(run.todo), !.got = {}]

PairOf(r, run) ==
  IF run.pc = "fetch"
  THEN {Req(r, "assignments", run.cur.id), Req(r, "grades", run.cur.id)}
  ELSE {}

\* no connection stored through the settings page yet, no mutation run
NoMutation == [n |-> 0, op |-> "none", user |-> 0, url |-> "", id |-> 0, ok |-> TRUE, error |-> ""]

\* a field of a JSON body that is undefined
Missing == [present |-> FALSE, text |-> <<>>]

\* a body that request.json() cannot parse
Malformed == [json |-> FALSE, canvas_url |-> Missing, canvas_name |-> Missing, api_token |-> Missing]

\* no response yet
NoResponse == [status |-> 0, body |-> <<>>]

\* no request is being served
NoRequest ==
  [pc |-> "idle", route |-> "", session |-> "none", body |-> Malformed, sent |-> {},
   response |-> NoResponse, info |-> <<>>, cached |-> <<>>, res |-> NoResponse]

\* detectConflicts has not been called
NoDetect ==
  [pc |-> "idle", user |-> 0, assignments |-> <<>>, canvas |-> <<>>, i |-> 0, caught |-> 0,
   conflicts |-> <<>>]

\* no statement sent
NoAccess ==
  [n |-> 0, db |-> <<>>, uid |-> 0, cmd |-> "none", relation |-> "", result |-> {},
   error |-> ""]

\* no method of the Canvas client called yet
NoCall ==
  [pc |-> "idle", method |-> "", endpoint |-> "", calls |-> 0, fetches |-> 0, logged |-> 0,
   answer |-> [rejected |-> FALSE, status |-> 0, json |-> FALSE], outcome |-> "none",
   error |-> ""]

InitWeb ==
  /\ api = NoCall
  /\ connections = {}
  /\ mutation = NoMutation
  /\ http = NoRequest
  /\ detect = NoDetect
  /\ access = NoAccess

InitStore ==
  /\ now = TwoHours + 1
  /\ remote \in {rs \in RemoteStates : rs.ver = 0}
  /\ changes = 0
  /\ conns = [c \in ConnIds |-> [user_id |-> Owner(c), status |-> "connected", last_sync |-> Null]]
  /\ courses = {}
  /\ assignments = {}
  /\ grades = {}
  /\ logs = {}
  /\ runs = [r \in RunIds |-> NoRun]
  /\ inflight = {}
  /\ console = {}
  /\ sched = NoSched
  /\ vault = NoVault

\* constructor(supabaseClient): a client that bypasses row-level security
InitSync == InitStore /\ client = "service_role"

Init == InitSync /\ InitWeb

\* the on-demand trigger: syncCanvasData(connection) with a connection row read before
StartSync(c) ==
  /\ FreshRun # 0
  /\ runs' = [runs EXCEPT ![FreshRun] = Begin(c)]
  /\ UNCHANGED <<webVars, client, vault, now, remote, changes, conns, courses, assignments, grades, logs,
                 inflight, console, sched, vault>>

\* the insert into sync_logs resolves; decryptToken returns or throws (whether the
\* decipher accepts the stored ciphertext is an input of the run here; SpecVault
\* models the cipher itself); testConnection sends GET /users/self
InsertLog(r) ==
  /\ runs[r].pc = "insert_log"
  /\ logs' = logs \cup {[id |-> r, user_id |-> Owner(runs[r].conn),
                         canvas_connection_id |-> runs[r].conn, status |-> "syncing",
                         started_at |-> now, completed_at |-> Null,
                         error_message |-> "", items_synced |-> 0]}
  /\ \E deciphered \in BOOLEAN :
       IF deciphered
       THEN /\ runs' = [runs EXCEPT ![r] = Mark([@ EXCEPT !.pc = "test"], "log")]
            /\ inflight' = inflight \cup {Req(r, "self", 0)}
       ELSE /\ runs' = [runs EXCEPT ![r] = Mark(Throw(@, "Failed to decrypt Canvas token"), "log")]
            /\ inflight' = inflight
  /\ UNCHANGED <<webVars, client, vault, now, remote, changes, conns, courses, assignments, grades, console, sched>>

\* GET /users/self is answered: testConnection returns true or false
TestConnection(r) ==
  /\ runs[r].pc = "test"
  /\ Req(r, "self", 0) \in inflight
  /\ IF remote.up
     THEN /\ runs' = [runs EXCEPT ![r].pc = "list"]
          /\ inflight' = (inflight \ {Req(r, "self", 0)}) \cup {Req(r, "courses", 0)}
     ELSE /\ runs' = [runs EXCEPT ![r] = Throw(@, "Canvas connection failed")]
          /\ inflight' = inflight \ {Req(r, "self", 0)}
  /\ UNCHANGED <<webVars, client, vault, now, remote, changes, conns, courses, assignments, grades, logs, console, sched>>

\* GET /courses is answered: getCourses returns the list or request throws
GetCourses(r) ==
  /\ runs[r].pc = "list"
  /\ Req(r, "courses", 0) \in inflight
  /\ IF remote.up
     THEN LET list == SetToSeq(remote.courses)
              got == [j \in 1..Len(list) |-> [id |-> list[j], ver |-> remote.ver]]
              run == NextCourse(Mark([runs[r] EXCEPT !.todo = got], "courses"))
          IN /\ runs' = [runs EXCEPT ![r] = run]
             /\ inflight' = (inflight \ {Req(r, "courses", 0)}) \cup PairOf(r, run)
     ELSE /\ runs' = [runs EXCEPT ![r] = Throw(@, "Canvas API error")]
          /\ inflight' = inflight \ {Req(r, "courses", 0)}
  /\ UNCHANGED <<webVars, client, vault, now, remote, changes, conns, courses, assignments, grades, logs, console, sched>>

\* a push that leaves the course itself out of the sync data
PushedWithoutCourse(data, course, va, vg) ==
  LET as == SetToSeq(AsgOf(course.id))
      gs == SetToSeq(GradeOf(course.id))
  IN [courses |-> data.courses,
      assignments |-> data.assignments \o
         [j \in 1..Len(as) |-> CanvasAssignmentOf(as[j], course.id, va)],
      grades |-> data.grades \o
         [j \in 1..Len(gs) |-> [id |-> gs[j], course_id |-> course.id, ver |-> vg]]]

\* syncData.courses.push(course); syncData.assignments.push(...); syncData.grades.push(...)
\* with the assignments of data version va and the grades of data version vg
Pushed(data, course, va, vg) ==
  LET as == SetToSeq(AsgOf(course.id))
      gs == SetToSeq(GradeOf(course.id))
  IN [courses |-> Append(data.courses, course),
      assignments |-> data.assignments \o
         [j \in 1..Len(as) |-> CanvasAssignmentOf(as[j], course.id, va)],
      grades |-> data.grades \o
         [j \in 1..Len(gs) |-> [id |-> gs[j], course_id |-> course.id, ver |-> vg]]]

\* one request of the Promise.all of the current course is answered
CourseResponse(r, kind) ==
  LET run == runs[r]
      k == run.cur.id
      other == IF kind = "assignments" THEN "grades" ELSE "assignments"
  IN
  /\ run.pc = "fetch"
  /\ Req(r, kind, k) \in inflight
  /\ IF ~CourseRequestOk(k)
     THEN \* Promise.all rejects; the catch logs the course and the loop goes on
          LET nxt == NextCourse(run)
          IN /\ runs' = [runs EXCEPT ![r] = nxt]
             /\ inflight' = (inflight \ {Req(r, kind, k)}) \cup PairOf(r, nxt)
             /\ console' = console \cup {<<r, k>>}
     ELSE IF \E g \in run.got : g[1] = other
     THEN LET vo == (CHOOSE g \in run.got : g[1] = other)[2]
              va == IF kind = "assignments" THEN remote.ver ELSE vo
              vg == IF kind = "grades" THEN remote.ver ELSE vo
              nxt == NextCourse(Mark([run EXCEPT !.data = Pushed(run.data, run.cur, va, vg)],
                                     "course_data"))
          IN /\ runs' = [runs EXCEPT ![r] = nxt]
             /\ inflight' = (inflight \ {Req(r, kind, k)}) \cup PairOf(r, nxt)
             /\ console' = console
     ELSE /\ runs' = [runs EXCEPT ![r].got = @ \cup {<<kind, remote.ver>>}]
          /\ inflight' = inflight \ {Req(r, kind, k)}
          /\ console' = console
  /\ UNCHANGED <<webVars, client, vault, now, remote, changes, conns, courses, assignments, grades, logs, sched>>

\* the answer to a request whose Promise.all has already rejected: nobody reads it
LateResponse(q) ==
  /\ q \in inflight
  /\ q.kind \in {"assignments", "grades"}
  /\ ~(runs[q.run].pc = "fetch" /\ runs[q.run].cur.id = q.course)
  /\ inflight' = inflight \ {q}
  /\ UNCHANGED <<webVars, client, vault, now, remote, changes, conns, courses, assignments, grades, logs, runs,
                 console, sched>>

CourseCols == <<"canvas_connection_id", "canvas_course_id">>
AssignmentCols == <<"course_id", "canvas_assignment_id">>
GradeCols == <<"user_id", "course_id", "canvas_grade_id">>

\* supabase.from('courses').upsert(..., {onConflict: 'canvas_connection_id,canvas_course_id'})
UpsertCourse(r) ==
  LET run == runs[r]
      cc == run.data.courses[run.i]
      new == [user_id |-> Owner(run.conn), canvas_connection_id |-> run.conn,
              canvas_course_id |-> cc.id, name |-> cc.ver]
      defaults == [id |-> FreshId(courses, CourseCols, new), user_id |-> 0,
                   canvas_connection_id |-> 0, canvas_course_id |-> 0, name |-> 0,
                   credits |-> Null, color |-> "#3b82f6", is_favorite |-> FALSE]
  IN
  /\ run.pc = "up_course"
  /\ courses' = Upsert("courses", courses, CourseCols, new, defaults)
  /\ runs' = [runs EXCEPT ![r] =
       Mark(IF run.i < Len(run.data.courses)
            THEN [run EXCEPT !.i = @ + 1, !.items = @ + 1]
            ELSE [run EXCEPT !.pc = "select", !.i = 0, !.items = @ + 1], "upsert")]
  /\ UNCHANGED <<webVars, client, vault, now, remote, changes, conns, assignments, grades, logs, inflight,
                 console, sched>>

\* supabase.from('courses').select('id, canvas_course_id').eq('canvas_connection_id', connection.id)
\* resolves to the rows, or to {data: null, error} when the statement fails; the code
\* reads data without a check, so courses.map then throws a TypeError inside the try block
SelectCourses(r) ==
  LET run == runs[r]
      map == {<<row.canvas_course_id, row.id>> :
                row \in {x \in courses : x.canvas_connection_id = run.conn}}
  IN
  /\ run.pc = "select"
  /\ \E answered \in BOOLEAN :
       runs' = [runs EXCEPT ![r] =
         IF answered THEN EnterAssignments([run EXCEPT !.cmap = map], 1)
         ELSE Throw(run, "Cannot read properties of null (reading 'map')")]
  /\ UNCHANGED <<webVars, client, vault, now, remote, changes, conns, courses, assignments, grades, logs,
                 inflight, console, sched, vault>>

\* a status in which submitted_at decides before graded_at
StatusSubmittedFirst(canvasAssignment) ==
  IF canvasAssignment.submitted_at # Null THEN "submitted"
  ELSE IF canvasAssignment.graded_at # Null THEN "completed"
  ELSE IF canvasAssignment.due_at # Null /\ canvasAssignment.due_at < now THEN "overdue"
  ELSE "upcoming"

\* let status = 'upcoming'; if (dueDate && dueDate < now) status = 'overdue';
\* if (submitted_at) status = 'submitted'; if (graded_at) status = 'completed'
AssignmentStatus(canvasAssignment) ==
  LET initial == "upcoming"
      byDue == IF canvasAssignment.due_at # Null /\ canvasAssignment.due_at < now
               THEN "overdue" ELSE initial
      bySubmitted == IF canvasAssignment.submitted_at # Null THEN "submitted" ELSE byDue
  IN IF canvasAssignment.graded_at # Null THEN "completed" ELSE bySubmitted

\* supabase.from('assignments').upsert(..., {onConflict: 'course_id,canvas_assignment_id'})
UpsertAssignment(r) ==
  LET run == runs[r]
      ca == run.data.assignments[run.i]
      new == [user_id |-> Owner(run.conn), course_id |-> CourseRowId(run, ca.course_id),
              canvas_assignment_id |-> ca.id, title |-> ca.ver, due_date |-> ca.due_at,
              status |-> AssignmentStatus(ca), submitted_at |-> ca.submitted_at,
              graded_at |-> ca.graded_at]
      defaults == [id |-> FreshId(assignments, AssignmentCols, new), user_id |-> 0,
                   course_id |-> 0, canvas_assignment_id |-> 0, title |-> 0,
                   due_date |-> Null, status |-> "upcoming", submitted_at |-> Null,
                   graded_at |-> Null]
  IN
  /\ run.pc = "up_asg"
  /\ assignments' = Upsert("assignments", assignments, AssignmentCols, new, defaults)
  /\ runs' = [runs EXCEPT ![r] =
       Mark(EnterAssignments([run EXCEPT !.items = @ + 1], run.i + 1), "upsert")]
  /\ UNCHANGED <<webVars, client, vault, now, remote, changes, conns, courses, grades, logs, inflight,
                 console, sched>>

\* supabase.from('grades').upsert(..., {onConflict: 'user_id,course_id,canvas_grade_id'})
UpsertGrade(r) ==
  LET run == runs[r]
      cg == run.data.grades[run.i]
      new == [user_id |-> Owner(run.conn), course_id |-> CourseRowId(run, cg.course_id),
              canvas_grade_id |-> cg.id, score |-> cg.ver]
      defaults == [id |-> FreshId(grades, GradeCols, new), user_id |-> 0,
                   course_id |-> 0, canvas_grade_id |-> 0, score |-> 0]
  IN
  /\ run.pc = "up_grade"
  /\ grades' = Upsert("grades", grades, GradeCols, new, defaults)
  /\ runs' = [runs EXCEPT ![r] =
       Mark(EnterGrades([run EXCEPT !.items = @ + 1], run.i + 1), "upsert")]
  /\ UNCHANGED <<webVars, client, vault, now, remote, changes, conns, courses, assignments, logs, inflight,
                 console, sched>>

\* supabase.from('canvas_connections').update({last_sync, status: 'connected'}).eq('id', connection.id)
UpdateConnection(r) ==
  /\ runs[r].pc = "upd_conn"
  /\ conns' = [conns EXCEPT ![runs[r].conn].last_sync = now, ![runs[r].conn].status = "connected"]
  /\ runs' = [runs EXCEPT ![r] = Mark([@ EXCEPT !.pc = "upd_log"], "conn")]
  /\ UNCHANGED <<webVars, client, vault, now, remote, changes, courses, assignments, grades, logs, inflight,
                 console, sched>>

\* an update of sync_logs that selects by connection instead of by the row's id
UpdateLogOfConnection(r) ==
  /\ runs[r].pc = "upd_log"
  /\ logs' = {IF /\ row.canvas_connection_id = runs[r].conn
                 /\ Reaches("sync_logs", "UPDATE", Owner(runs[r].conn), row)
              THEN [row EXCEPT !.status = "completed", !.completed_at = now,
                               !.items_synced = runs[r].items]
              ELSE row : row \in logs}
  /\ runs' = [runs EXCEPT ![r] = Mark([@ EXCEPT !.pc = "done"], "log")]
  /\ UNCHANGED <<webVars, client, vault, now, remote, changes, conns, courses, assignments, grades,
                 inflight, console, sched>>

\* supabase.from('sync_logs').update({status: 'completed', ...}).eq('id', syncLog.id); return
UpdateLog(r) ==
  /\ runs[r].pc = "upd_log"
  /\ logs' = {IF row.id = r /\ Reaches("sync_logs", "UPDATE", Owner(runs[r].conn), row)
              THEN [row EXCEPT !.status = "completed", !.completed_at = now,
                               !.items_synced = runs[r].items]
              ELSE row : row \in logs}
  /\ runs' = [runs EXCEPT ![r] = Mark([@ EXCEPT !.pc = "done"], "log")]
  /\ UNCHANGED <<webVars, client, vault, now, remote, changes, conns, courses, assignments, grades, inflight,
                 console, sched>>

\* a catch block that also deletes the courses of the connection
CatchLogRollback(r) ==
  /\ runs[r].pc = "catch_log"
  /\ logs' = {IF row.id = r /\ Reaches("sync_logs", "UPDATE", Owner(runs[r].conn), row)
              THEN [row EXCEPT !.status = "failed", !.completed_at = now,
                               !.error_message = runs[r].err]
              ELSE row : row \in logs}
  /\ courses' = {row \in courses : row.canvas_connection_id # runs[r].conn}
  /\ runs' = [runs EXCEPT ![r].pc = "catch_conn"]
  /\ UNCHANGED <<webVars, client, vault, now, remote, changes, conns, assignments, grades, inflight,
                 console, sched>>

\* catch: supabase.from('sync_logs').update({status: 'failed', ...}).eq('id', syncLog.id)
CatchLog(r) ==
  /\ runs[r].pc = "catch_log"
  /\ logs' = {IF row.id = r /\ Reaches("sync_logs", "UPDATE", Owner(runs[r].conn), row)
              THEN [row EXCEPT !.status = "failed", !.completed_at = now,
                               !.error_message = runs[r].err]
              ELSE row : row \in logs}
  /\ runs' = [runs EXCEPT ![r].pc = "catch_conn"]
  /\ UNCHANGED <<webVars, client, vault, now, remote, changes, conns, courses, assignments, grades, inflight,
                 console, sched>>

\* the catch block without its update of canvas_connections
CatchRethrowOnly(r) ==
  /\ runs[r].pc = "catch_conn"
  /\ runs' = [runs EXCEPT ![r].pc = "thrown"]
  /\ UNCHANGED <<webVars, client, vault, now, remote, changes, conns, courses, assignments, grades, logs,
                 inflight, console, sched>>

\* catch: supabase.from('canvas_connections').update({status: 'error'}); throw error
CatchConnection(r) ==
  /\ runs[r].pc = "catch_conn"
  /\ conns' = [conns EXCEPT ![runs[r].conn].status = "error"]
  /\ runs' = [runs EXCEPT ![r].pc = "thrown"]
  /\ UNCHANGED <<webVars, client, vault, now, remote, changes, courses, assignments, grades, logs, inflight,
                 console, sched>>

\* ------------------------------------------------------ the background timer
\* connection.last_sync ? new Date(connection.last_sync) : new Date(0)
LastSyncDate(ls) == IF ls = Null THEN Epoch ELSE ls

\* lastSync < twoHoursAgo, with twoHoursAgo = Date.now() - 2 * 60 * 60 * 1000
IsDue(ls) == LastSyncDate(ls) < now - TwoHours

\* .eq('user_id', userId).eq('status', 'connected')
Selected(u) == {c \in ConnIds : conns[c].user_id = u /\ conns[c].status = "connected"}

RECURSIVE SkipFresh(_)
\* the for loop passes the connections that are not due without awaiting
SkipFresh(queue) ==
  IF queue = <<>> THEN <<>>
  ELSE IF IsDue(Head(queue).last_sync) THEN queue
  ELSE SkipFresh(Tail(queue))

\* the loop runs up to its next await: syncCanvasData of the next due connection, or the end
SchedLoop(sc, queue) ==
  LET q == SkipFresh(queue)
  IN IF q = <<>>
     THEN /\ sched' = [sc EXCEPT !.pc = "idle", !.queue = <<>>, !.run = 0]
          /\ runs' = runs
     ELSE /\ FreshRun # 0
          /\ sched' = [sc EXCEPT !.pc = "wait", !.queue = q, !.run = FreshRun,
                                 !.started = @ \cup {Head(q).id}]
          /\ runs' = [runs EXCEPT ![FreshRun] = Begin(Head(q).id)]

\* the timer fires: scheduleBackgroundSync(userId) sends its select
SchedCall(u) ==
  /\ sched.pc = "idle"
  /\ sched' = [NoSched EXCEPT !.pc = "select", !.user = u]
  /\ UNCHANGED <<webVars, client, vault, now, remote, changes, conns, courses, assignments, grades, logs, runs,
                 inflight, console>>

\* the select of canvas_connections resolves
SchedSelect ==
  LET ids == SetToSeq(Selected(sched.user))
      queue == [j \in 1..Len(ids) |-> [id |-> ids[j], last_sync |-> conns[ids[j]].last_sync]]
      due == {c \in ConnIds : conns[c].user_id = sched.user /\ IsDue(conns[c].last_sync)}
  IN
  /\ sched.pc = "select"
  /\ SchedLoop([sched EXCEPT !.due = due], queue)
  /\ UNCHANGED <<webVars, client, vault, now, remote, changes, conns, courses, assignments, grades, logs,
                 inflight, console>>

\* a scheduler whose loop ends when an awaited sync has thrown
SchedResumeStop ==
  /\ sched.pc = "wait"
  /\ runs[sched.run].pc \in {"done", "thrown"}
  /\ IF runs[sched.run].pc = "thrown"
     THEN sched' = [sched EXCEPT !.pc = "idle", !.queue = <<>>, !.run = 0] /\ runs' = runs
     ELSE SchedLoop(sched, Tail(sched.queue))
  /\ UNCHANGED <<webVars, client, vault, now, remote, changes, conns, courses, assignments, grades, logs,
                 inflight, console>>

\* the awaited syncCanvasData returned or threw (the catch only logs)
SchedResume ==
  /\ sched.pc = "wait"
  /\ runs[sched.run].pc \in {"done", "thrown"}
  /\ SchedLoop(sched, Tail(sched.queue))
  /\ UNCHANGED <<webVars, client, vault, now, remote, changes, conns, courses, assignments, grades, logs,
                 inflight, console>>

\* ------------------------------------------------------------ environment
Tick ==
  /\ now < MaxTime
  /\ now' = now + 1
  /\ UNCHANGED <<webVars, client, vault, remote, changes, conns, courses, assignments, grades, logs, runs,
                 inflight, console, sched, vault>>

RemoteNext ==
  {[remote EXCEPT !.up = ~@]}
  \cup {[remote EXCEPT !.courses = @ \cup {k}] : k \in CourseIds \ remote.courses}
  \cup {[remote EXCEPT !.courses = @ \ {k}, !.err = @ \ {k}] : k \in remote.courses}
  \cup {[remote EXCEPT !.err = @ \cup {k}] : k \in remote.courses \ remote.err}
  \cup {[remote EXCEPT !.err = @ \ {k}] : k \in remote.err}
  \cup {[remote EXCEPT !.ver = @ + 1]}

\* Canvas goes down or comes back, a course appears, disappears or is refused, data is edited
RemoteChange ==
  /\ changes < MaxChanges
  /\ changes' = changes + 1
  /\ remote' \in RemoteNext
  /\ UNCHANGED <<webVars, client, vault, now, conns, courses, assignments, grades, logs, runs, inflight,
                 console, sched>>

RunStep ==
  \/ \E r \in RunIds : InsertLog(r)
  \/ \E r \in RunIds : TestConnection(r)
  \/ \E r \in RunIds : GetCourses(r)
  \/ \E r \in RunIds : \E kind \in {"assignments", "grades"} : CourseResponse(r, kind)
  \/ \E q \in inflight : LateResponse(q)
  \/ \E r \in RunIds : UpsertCourse(r)
  \/ \E r \in RunIds : SelectCourses(r)
  \/ \E r \in RunIds : UpsertAssignment(r)
  \/ \E r \in RunIds : UpsertGrade(r)
  \/ \E r \in RunIds : UpdateConnection(r)
  \/ \E r \in RunIds : UpdateLog(r)
  \/ \E r \in RunIds : CatchLog(r)
  \/ \E r \in RunIds : CatchConnection(r)

\* sync runs triggered on demand, interleaved, against a Canvas instance that may change
Next ==
  \/ \E c \in ConnIds : StartSync(c)
  \/ RunStep
  \/ RemoteChange

Spec == Init /\ [][Next]_vars

\* the background timer and the clock
InitTimer ==
  /\ Init
  /\ remote.courses = {1}

NextTimer ==
  \/ \E u \in Users : SchedCall(u)
  \/ SchedSelect
  \/ SchedResume
  \/ RunStep
  \/ Tick
  \/ RemoteChange

SpecTimer == InitTimer /\ [][NextTimer]_vars

\* the updates the user makes to a course: a color, the favorite mark and the credits
Updates == {[color |-> "#ef4444", is_favorite |-> TRUE, credits |-> 3]}

\* DataService.updateCourse(courseId, updates): .from('courses').update(updates).eq('id', courseId)
\* (each course is edited once)
UpdateCourse ==
  \E row \in courses : \E updates \in Updates :
    /\ row.color = "#3b82f6"
    /\ courses' = (courses \ {row}) \cup {Merge(row, updates)}
    /\ UNCHANGED <<webVars, client, vault, now, remote, changes, conns, assignments, grades, logs, runs,
                   inflight, console, sched>>

\* while the user edits, Canvas stops returning a course or its data is edited
ChangeDuringEdits ==
  /\ changes < MaxEditChanges
  /\ changes' = changes + 1
  /\ remote' \in {[remote EXCEPT !.courses = @ \ {k}] : k \in remote.courses}
                 \cup {[remote EXCEPT !.ver = @ + 1]}
  /\ UNCHANGED <<webVars, client, vault, now, conns, courses, assignments, grades, logs, runs, inflight,
                 console, sched>>

\* Canvas is up and returns both courses
InitEdits ==
  /\ Init
  /\ remote = [up |-> TRUE, courses |-> CourseIds, err |-> {}, ver |-> 0]

\* sync runs of one connection, interleaved with the user's edits of the cached courses
NextEdits ==
  \/ StartSync(1)
  \/ RunStep
  \/ ChangeDuringEdits
  \/ UpdateCourse

SpecEdits == InitEdits /\ [][NextEdits]_vars

\* the service constructed with the client of the web application: the anon key and
\* the session of the user who owns the connection
InitSession ==
  /\ InitStore
  /\ InitWeb
  /\ client = "user"
  /\ remote.courses = {1}

SpecSession == InitSession /\ [][Next]_vars

\* a token is encrypted under a salt in one process and decrypted in another
InitVault ==
  /\ now = TwoHours + 1
  /\ remote = [up |-> TRUE, courses |-> {}, err |-> {}, ver |-> 0]
  /\ changes = 0
  /\ conns = [c \in ConnIds |-> [user_id |-> Owner(c), status |-> "connected", last_sync |-> Null]]
  /\ courses = {}
  /\ assignments = {}
  /\ grades = {}
  /\ logs = {}
  /\ runs = [r \in RunIds |-> NoRun]
  /\ inflight = {}
  /\ console = {}
  /\ sched = NoSched
  /\ client = "service_role"
  /\ InitWeb
  /\ \E token \in Tokens, salt \in Salts, key \in Keys, readSalt \in Salts, readKey \in Keys :
       vault = [NoVault EXCEPT !.pc = "plain", !.token = token, !.salt = salt, !.key = key,
                               !.readSalt = readSalt, !.readKey = readKey]

Encrypt ==
  /\ vault.pc = "plain"
  /\ vault' = [vault EXCEPT !.pc = "stored",
                            !.stored = encryptToken(vault.token, vault.salt, vault.key)]
  /\ UNCHANGED <<webVars, client, now, remote, changes, conns, courses, assignments, grades, logs, runs,
                 inflight, console, sched>>

Decrypt ==
  /\ vault.pc = "stored"
  /\ vault' = [vault EXCEPT !.pc = "read",
                            !.out = decryptToken(vault.stored, vault.readSalt, vault.readKey)]
  /\ UNCHANGED <<webVars, client, now, remote, changes, conns, courses, assignments, grades, logs, runs,
                 inflight, console, sched>>

NextVault == Encrypt \/ Decrypt

SpecVault == InitVault /\ [][NextVault]_vars

\* ------------------------------------------------------ the settings page
MaxMutations == 3

\* what the user types into the Canvas connection form
Urls == {"https://a.instructure.com", "https://b.instructure.com"}
Names == {"A", "B"}
FormTokens == {<<2, 3>>}

\* process.env.CANVAS_ENCRYPTION_KEY
ENCRYPTION_KEY == <<1>>

\* Postgres error 23505
DuplicateKey == "duplicate key value violates unique constraint"

\* an insert that checks no unique constraint
InsertUnchecked(table, rows, new) == [rows |-> rows \cup {new}, error |-> ""]

\* supabase .insert(new): INSERT INTO table; a row that repeats the columns of a
\* UNIQUE constraint of the table is rejected and the table is left as it was
Insert(table, rows, new) ==
  IF \E cols \in UniqueOn[table] : \E old \in rows : KeyOf(cols, old) = KeyOf(cols, new)
  THEN [rows |-> rows, error |-> DuplicateKey]
  ELSE [rows |-> rows \cup {new}, error |-> ""]

\* addCanvasConnectionMutation in the session of user u: generateSalt, encryptToken,
\* dataService.addCanvasConnection (insert ... select single; throws the error)
AddConnection(u, url, name, token) ==
  /\ mutation.n < MaxMutations
  /\ \E salt \in Salts :
       LET new == [id |-> mutation.n + 1, user_id |-> u, canvas_url |-> url,
                   canvas_name |-> name,
                   encrypted_token |-> encryptToken(token, salt, ENCRYPTION_KEY),
                   token_salt |-> salt, status |-> "connected", last_sync |-> Null]
           res == Insert("canvas_connections", connections, new)
       IN /\ connections' = res.rows
          /\ mutation' = [n |-> mutation.n + 1, op |-> "add", user |-> u, url |-> url,
                          id |-> IF res.error = "" THEN new.id ELSE 0,
                          ok |-> res.error = "", error |-> res.error]
  /\ UNCHANGED <<syncVars, http, detect, access, api>>

\* removeConnectionMutation in the session of user u:
\* dataService.removeCanvasConnection (delete ... eq id), under the policy of the table.
\* Rows of courses and sync_logs that reference the connection go with it
\* (ON DELETE CASCADE); no sync has run for a connection of this page.
RemoveConnection(u, connectionId) ==
  /\ mutation.n < MaxMutations
  /\ connections' = {row \in connections :
                       ~(row.id = connectionId /\ Permits("canvas_connections", "DELETE", u, row))}
  /\ mutation' = [n |-> mutation.n + 1, op |-> "remove", user |-> u, url |-> "",
                  id |-> connectionId, ok |-> TRUE, error |-> ""]
  /\ UNCHANGED <<syncVars, http, detect, access, api>>

NextSettings ==
  \/ \E u \in Users, url \in Urls, name \in Names, token \in FormTokens :
       AddConnection(u, url, name, token)
  \/ \E u \in Users, id \in 1..MaxMutations : RemoveConnection(u, id)

InitSettings == Init /\ remote.courses = {}

SpecSettings == InitSettings /\ [][NextSettings]_vars

\* ------------------------------------------------------ the route handlers
\* GET /api/dashboard, GET of the dashboard data route, POST /api/canvas/setup as
\* the proxy to the backend and as the handler that validates the form itself,
\* GET /api/canvas/validate-token
Routes == {"dashboard", "dashboard_data", "setup_proxy", "setup", "validate_token"}

\* the routes that export POST and read a body; a GET carries none
PostRoutes == {"setup_proxy", "setup"}

\* what supabase.auth.getSession() or getUser() finds for the cookies of the request
Sessions == {"none", "error", "valid"}

\* !(sessionError || !session), !(userError || !user)
Authenticated(session) == session = "valid"

\* a field of a JSON body that is a string
Str(t) == [present |-> TRUE, text |-> t]

\* !field
Falsy(f) == ~f.present \/ f.text = <<>>

\* api_token.length < 20
MinTokenLength == 20

Chars(n) == [j \in 1..n |-> "x"]

UrlTexts ==
  {<<>>, <<"http", "s://", "canvas.edu">>, <<"canvas.edu">>, <<"not a url">>,
   <<"http", "nowhere">>}
NameTexts == {<<>>, <<"A">>, <<" ", "A", " ">>}
TokenTexts == {<<>>, Chars(MinTokenLength - 1), Chars(MinTokenLength)}

Fields(texts) == {Missing} \cup {Str(t) : t \in texts}

Bodies ==
  {Malformed} \cup
  [json : {TRUE}, canvas_url : Fields(UrlTexts), canvas_name : Fields(NameTexts),
   api_token : Fields(TokenTexts)]

\* canvas_url.startsWith('http')
StartsWithHttp(t) == Len(t) > 0 /\ t[1] = "http"

\* canvas_url.startsWith('http') ? canvas_url : `https://${canvas_url}`
CleanUrl(t) == IF StartsWithHttp(t) THEN t ELSE <<"http", "s://">> \o t

RECURSIVE TrimStart(_)
TrimStart(t) == IF t # <<>> /\ Head(t) = " " THEN TrimStart(Tail(t)) ELSE t

RECURSIVE TrimEnd(_)
TrimEnd(t) ==
  IF t # <<>> /\ t[Len(t)] = " " THEN TrimEnd(SubSeq(t, 1, Len(t) - 1)) ELSE t

\* canvas_name.trim()
Trim(t) == TrimEnd(TrimStart(t))

\* the answer of the backend to a fetch: the fetch rejects, or a status with a JSON body
Unreachable == [status |-> 0, detail |-> "", data |-> <<>>]

BackendErrors ==
  {[status |-> st, detail |-> d, data |-> <<>>] : st \in {400, 404, 500}, d \in {"", "backend detail"}}

\* response.ok
Ok(ans) == 200 <= ans.status /\ ans.status <= 299

\* the JSON of /api/v1/canvas/validate-token
ValidationData ==
  [valid : BOOLEAN, canvas_url : {<<"http", "s://", "canvas.edu">>}, canvas_name : {<<"A">>},
   last_sync : {Null, 1}]

\* the JSON of /api/v1/dashboard and of /api/v1/canvas/setup: relayed as it is
BackendData == {[success |-> TRUE]}

Answers(path) ==
  {Unreachable} \cup BackendErrors \cup
  {[status |-> 200, detail |-> "", data |-> d] :
     d \in IF path = "/api/v1/canvas/validate-token" THEN ValidationData ELSE BackendData}

BackendPath(route) ==
  CASE route = "dashboard" -> "/api/v1/dashboard"
    [] route = "setup_proxy" -> "/api/v1/canvas/setup"
    [] OTHER -> "/api/v1/canvas/validate-token"

\* NextResponse.json(body, {status})
Respond(status, body) ==
  [http EXCEPT !.pc = "responded", !.res = [status |-> status, body |-> body]]

\* fetch(`${BACKEND_URL}${path}`, ...) is sent and awaited
Fetch(path, pc) == [http EXCEPT !.pc = pc, !.sent = @ \cup {path}]

ZeroStats == [total_courses |-> 0, due_soon |-> 0, completed_this_week |-> 0, average_grade |-> 0]

\* the mock data of GET /api/dashboard
MockDashboard ==
  [stats |-> ZeroStats, upcoming_assignments |-> <<>>, recent_grades |-> <<>>,
   course_progress |-> <<>>]

\* the fallback of the dashboard data route
NotConnected ==
  [connected |-> FALSE, stats |-> ZeroStats, upcoming_assignments |-> <<>>,
   course_progress |-> <<>>]

\* error.detail || fallback
DetailOr(ans, fallback) == IF ans.detail # "" THEN ans.detail ELSE fallback

\* a request reaches its handler; the proxy of the setup route parses the body first
Receive(route, session, body) ==
  /\ http.pc = "idle"
  /\ body \in (IF route \in PostRoutes THEN Bodies ELSE {Malformed})
  /\ http' = [NoRequest EXCEPT !.pc = IF route = "setup_proxy" THEN "json" ELSE "auth",
                               !.route = route, !.session = session, !.body = body]
  /\ UNCHANGED <<syncVars, connections, mutation, detect, access, api>>

\* POST of setup/route.ts: const body = await request.json(), before the session is read
SetupProxyJson ==
  /\ http.pc = "json"
  /\ http.route = "setup_proxy"
  /\ http' = IF http.body.json THEN [http EXCEPT !.pc = "auth"]
             ELSE Respond(500, [error |-> "Internal server error"])
  /\ UNCHANGED <<syncVars, connections, mutation, detect, access, api>>

\* supabase.auth.getSession() or getUser() resolves: 401, or the handler goes on
GetSession ==
  /\ http.pc = "auth"
  /\ http' =
       IF ~Authenticated(http.session)
       THEN IF http.route = "validate_token"
            THEN Respond(401, [error |-> "Unauthorized", connected |-> FALSE])
            ELSE Respond(401, [error |-> "Unauthorized"])
       ELSE CASE http.route = "setup" -> [http EXCEPT !.pc = "json"]
              [] http.route = "dashboard_data" -> Fetch(BackendPath(http.route), "validation")
              [] OTHER -> Fetch(BackendPath(http.route), "backend")
  /\ UNCHANGED <<syncVars, connections, mutation, detect, access, api>>

\* the setup handler that validates the form: request.json(), the checks, the answer
SetupJson ==
  LET body == http.body
      cleanUrl == CleanUrl(body.canvas_url.text)
      mockConnection == [id |-> now, user_id |-> http.session, canvas_url |-> cleanUrl,
                         canvas_name |-> Trim(body.canvas_name.text),
                         status |-> "connected", created_at |-> now]
  IN
  /\ http.pc = "json"
  /\ http.route = "setup"
  /\ http' =
       IF ~body.json THEN Respond(500, [error |-> "Internal server error"])
       ELSE IF Falsy(body.canvas_url) \/ Falsy(body.canvas_name) \/ Falsy(body.api_token)
       THEN Respond(400, [error |-> "Missing required fields: canvas_url, canvas_name, and api_token are required"])
       ELSE IF Len(body.api_token.text) < MinTokenLength
       THEN Respond(400, [error |-> "Canvas API token appears to be too short. Please check your token."])
       ELSE Respond(200, [success |-> TRUE,
                          message |-> "Canvas connection configured successfully!",
                          connection |-> mockConnection])
  /\ UNCHANGED <<syncVars, connections, mutation, detect, access, api>>

\* GET /api/dashboard after its fetch
DashboardResponse(ans) ==
  IF ans = Unreachable THEN Respond(200, MockDashboard)
  ELSE IF ~Ok(ans)
  THEN IF ans.status = 404 THEN Respond(200, MockDashboard)
       ELSE Respond(ans.status, [error |-> DetailOr(ans, "Failed to fetch dashboard data")])
  ELSE Respond(200, ans.data)

\* POST /api/canvas/setup (proxy) after its fetch
SetupProxyResponse(ans) ==
  IF ans = Unreachable THEN Respond(500, [error |-> "Internal server error"])
  ELSE IF ~Ok(ans) THEN Respond(ans.status, [error |-> DetailOr(ans, "Setup failed")])
  ELSE Respond(200, ans.data)

\* GET /api/canvas/validate-token after its fetch
ValidateTokenResponse(ans) ==
  IF ans = Unreachable
  THEN Respond(500, [error |-> "Internal server error", connected |-> FALSE])
  ELSE IF ~Ok(ans)
  THEN IF ans.status = 404 THEN Respond(200, [connected |-> FALSE])
       ELSE Respond(ans.status, [error |-> DetailOr(ans, "Validation failed"), connected |-> FALSE])
  \* data.x || null: the fields of the answer are relayed
  ELSE Respond(200, [connected |-> ans.data.valid, canvas_url |-> ans.data.canvas_url,
                     canvas_name |-> ans.data.canvas_name, last_sync |-> ans.data.last_sync])

\* the backend answers the fetch of one of the three proxies, or the fetch rejects
BackendAnswer ==
  /\ http.pc = "backend"
  /\ \E ans \in Answers(BackendPath(http.route)) :
       http' = [(CASE http.route = "dashboard" -> DashboardResponse(ans)
                   [] http.route = "setup_proxy" -> SetupProxyResponse(ans)
                   [] OTHER -> ValidateTokenResponse(ans))
                  EXCEPT !.response = ans]
  /\ UNCHANGED <<syncVars, connections, mutation, detect, access, api>>

\* --------------------------------------------- the dashboard data route
MaxAssignments == 2

\* 7 * 24 * 60 * 60 * 1000 ms, in hours
OneWeek == 7 * 24

\* .slice(0, 5)
Shown == 5

\* new Date(s) of a string that is no date
InvalidDate == -2

\* the due_date of an assignment the backend returns: none, no date, and dates around
\* now and around one week from now
DueDates == {Null, InvalidDate, now - 1, now, now + 1, now + OneWeek, now + OneWeek + 1}

AssignmentStatuses == {"upcoming", "in_progress", "completed", "overdue", "submitted"}

ListedAssignments == [due_date : DueDates, status : AssignmentStatuses]

Lists(S, n) == UNION {[1..k -> S] : k \in 0..n}

\* the grades the backend returns
GradeLists ==
  LET a == [score |-> 8, points_possible |-> 10, graded_at |-> 1]
      b == [score |-> 5, points_possible |-> 0, graded_at |-> 2]
  IN {<<>>, <<a>>, <<a, b>>, <<b, a>>}

CourseLists == {<<>>, <<1>>}

\* one of the three fetches of Promise.allSettled: fulfilled with an ok response and
\* its JSON list, or rejected or not ok
Settled(lists) == {[ok |-> FALSE, list |-> <<>>]} \cup {[ok |-> TRUE, list |-> l] : l \in lists}

\* status === 'fulfilled' && value.ok ? await value.json() : []
ListOf(settled) == IF settled.ok THEN settled.list ELSE <<>>

\* a filter that looks at the status only
StatusOnly(a) == a.status \in {"upcoming", "in_progress"}

\* if (!assignment.due_date) return false; dueDate > now && dueDate <= oneWeekFromNow &&
\* (status === 'upcoming' || status === 'in_progress'); an invalid date compares false
IsDueSoon(a) ==
  /\ a.due_date # Null
  /\ a.due_date # InvalidDate
  /\ a.due_date > now
  /\ a.due_date <= now + OneWeek
  /\ a.status \in {"upcoming", "in_progress"}

\* assignments.filter(...).length
DueSoon(list) == Len(SelectSeq(list, IsDueSoon))

IsCompleted(a) == a.status \in {"completed", "submitted"}

\* Array.prototype.sort (stable) with the comparator (a, b) => keys[a] - keys[b]
Sort(list, keys) ==
  LET n == Len(list)
      rank(j) == 1 + Cardinality({i \in 1..n : keys[i] < keys[j] \/ (keys[i] = keys[j] /\ i < j)})
  IN [p \in 1..n |-> list[CHOOSE j \in 1..n : rank(j) = p]]

\* grades.sort((a, b) => new Date(b.graded_at) - new Date(a.graded_at)), in place
RecentFirst(list) == Sort(list, [j \in 1..Len(list) |-> 0 - list[j].graded_at])

\* .sort((a, b) => new Date(a.due_date) - new Date(b.due_date))
SoonestFirst(list) == Sort(list, [j \in 1..Len(list) |-> list[j].due_date])

\* .slice(0, n)
Slice(list, n) == SubSeq(list, 1, IF Len(list) < n THEN Len(list) ELSE n)

\* grade.assignment?.points_possible > 0 ? (grade.score / points_possible) * 100 : 0
Percentage(g) == IF g.points_possible > 0 THEN (g.score * 100) \div g.points_possible ELSE 0

\* Math.round(averageGrade * 10) / 10, in tenths
AverageGrade(list) ==
  IF Len(list) > 0
  THEN (20 * SumSeq([j \in 1..Len(list) |-> Percentage(list[j])]) + Len(list))
         \div (2 * Len(list))
  ELSE 0

\* the body of the answer when Canvas is connected
Connected(info, courseList, assignmentList, gradeList) ==
  [connected |-> TRUE,
   canvas_info |-> [url |-> info.canvas_url, name |-> info.canvas_name,
                    last_sync |-> info.last_sync],
   courses |-> courseList,
   assignments |-> assignmentList,
   grades |-> RecentFirst(gradeList),
   stats |-> [total_courses |-> Len(courseList),
              due_soon |-> DueSoon(assignmentList),
              completed_this_week |-> Len(SelectSeq(assignmentList, IsCompleted)),
              average_grade |-> AverageGrade(gradeList),
              total_assignments |-> Len(assignmentList),
              grade_count |-> Len(gradeList)],
   upcoming_assignments |-> Slice(SoonestFirst(SelectSeq(assignmentList, IsDueSoon)), Shown),
   course_progress |-> Slice(RecentFirst(gradeList), Shown)]

\* the backend answers the validate-token fetch of the dashboard data route, the fetch
\* rejects, or its 5 second timeout aborts it (then there is no response)
Validation ==
  /\ http.pc = "validation"
  /\ \E ans \in Answers(BackendPath(http.route)) :
       http' =
         IF ans = Unreachable
         THEN Respond(200, [connected |-> FALSE,
                            message |-> "Canvas integration not yet configured or backend unavailable",
                            stats |-> ZeroStats, upcoming_assignments |-> <<>>,
                            course_progress |-> <<>>])
         ELSE IF ~Ok(ans) \/ ~ans.data.valid
         THEN [Respond(200, NotConnected) EXCEPT !.response = ans]
         ELSE [http EXCEPT !.pc = "data", !.response = ans, !.info = ans.data,
                           !.sent = @ \cup {"/api/v1/canvas/courses",
                                            "/api/v1/canvas/assignments?limit=100",
                                            "/api/v1/canvas/grades"}]
  /\ UNCHANGED <<syncVars, connections, mutation, detect, access, api>>

\* Promise.allSettled of the three fetches resolves; the stats are computed and sent.
\* cached is what the backend holds for the user: the assignments fetch answers with it,
\* rejects or is not ok
DataSettled ==
  /\ http.pc = "data"
  /\ \E c \in Settled(CourseLists), g \in Settled(GradeLists), answered \in BOOLEAN,
        cached \in Lists(ListedAssignments, MaxAssignments) :
       http' = [Respond(200, Connected(http.info, ListOf(c),
                                       ListOf([ok |-> answered, list |-> cached]), ListOf(g)))
                  EXCEPT !.cached = cached]
  /\ UNCHANGED <<syncVars, connections, mutation, detect, access, api>>

NextRoutes ==
  \/ \E route \in Routes, session \in Sessions, body \in Bodies : Receive(route, session, body)
  \/ SetupProxyJson
  \/ GetSession
  \/ SetupJson
  \/ BackendAnswer
  \/ Validation
  \/ DataSettled

\* no sync runs while the requests are handled
InitRoutes == Init /\ remote.courses = {} /\ remote.up

SpecRoutes == InitRoutes /\ [][NextRoutes]_vars

\* ------------------------------------------------------ conflict detection
MaxCached == 1

\* the value of a property an object does not have
Undefined == [undefined |-> TRUE]

\* obj.key
Get(obj, key) == IF key \in DOMAIN obj THEN obj[key] ELSE Undefined

Titles == {"Essay", "Essay (revised)"}
DueAts == {Null, 1}
Points == {10, 20}
Descriptions == {"draft", "final"}

\* a row of canvas_connections as the select embeds it
EmbeddedConnection ==
  [canvas_url |-> "https://a.instructure.com",
   encrypted_token |-> encryptToken(<<2, 3>>, <<0>>, ENCRYPTION_KEY), token_salt |-> <<0>>]

\* the rows the select of detectConflicts returns for a user: the columns of the
\* assignment, course: the embedded course with name and canvas_course_id, and
\* canvas_connection: the embedded course with its canvas_connections
SelectedAssignments(u) ==
  [id : {1}, user_id : {u}, canvas_assignment_id : {11}, title : Titles, due_date : DueAts,
   points_possible : Points, description : Descriptions,
   course : {[name |-> "Course 1", canvas_course_id |-> 1]},
   canvas_connection : {[canvas_connections |-> EmbeddedConnection]}]

\* assignments.find(...) found no assignment with the id
NotFound == [id |-> 0]

\* what Canvas holds for a cached assignment
CanvasAssignments ==
  {NotFound} \cup
  [id : {11}, name : Titles, due_at : DueAts, points_possible : Points,
   description : Descriptions]

\* detectConflicts(userId): the select resolves; Canvas holds canvas[i] for row i
DetectConflicts(u) ==
  /\ detect.pc = "idle"
  /\ \E n \in 0..MaxCached :
       \E rows \in [1..n -> SelectedAssignments(u)], canvas \in [1..n -> CanvasAssignments] :
         detect' = [NoDetect EXCEPT !.pc = "loop", !.user = u, !.assignments = rows,
                                    !.canvas = canvas, !.i = 1]
  /\ UNCHANGED <<syncVars, connections, mutation, http, access, api>>

\* assignment.title !== canvasAssignment.name || due_date !== due_at ||
\* points_possible !== points_possible
hasConflict(local, canvasAssignment) ==
  \/ local.title # canvasAssignment.name
  \/ local.due_date # canvasAssignment.due_at
  \/ local.points_possible # canvasAssignment.points_possible

\* identifyConflictFields(local, remote)
identifyConflictFields(local, canvasAssignment) ==
  (IF local.title # canvasAssignment.name THEN <<"title">> ELSE <<>>) \o
  (IF local.due_date # canvasAssignment.due_at THEN <<"due_date">> ELSE <<>>) \o
  (IF local.points_possible # canvasAssignment.points_possible THEN <<"points_possible">> ELSE <<>>) \o
  (IF local.description # canvasAssignment.description THEN <<"description">> ELSE <<>>)

\* one pass of the for loop: the try block and its catch. Reading a property of
\* undefined throws a TypeError, decryptToken throws its error; both are caught and
\* logged, and the loop goes on
CheckAssignment ==
  /\ detect.pc = "loop"
  /\ detect.i <= Len(detect.assignments)
  /\ LET assignment == detect.assignments[detect.i]
         connection == Get(assignment.course, "canvas_connection")
         token == decryptToken(connection.encrypted_token, connection.token_salt,
                               ENCRYPTION_KEY)
         canvasAssignment == detect.canvas[detect.i]
         thrown == connection = Undefined \/ ~token.ok
     IN detect' =
          [detect EXCEPT
             !.i = @ + 1,
             !.caught = IF thrown THEN @ + 1 ELSE @,
             !.conflicts =
               IF thrown \/ canvasAssignment = NotFound
                  \/ ~hasConflict(assignment, canvasAssignment)
               THEN @
               ELSE Append(@, [type |-> "assignment", local |-> assignment,
                               remote |-> canvasAssignment,
                               conflictFields |->
                                 identifyConflictFields(assignment, canvasAssignment)])]
  /\ UNCHANGED <<syncVars, connections, mutation, http, access, api>>

\* return conflicts
DetectReturn ==
  /\ detect.pc = "loop"
  /\ detect.i > Len(detect.assignments)
  /\ detect' = [detect EXCEPT !.pc = "returned"]
  /\ UNCHANGED <<syncVars, connections, mutation, http, access, api>>

NextDetect ==
  \/ \E u \in Users : DetectConflicts(u)
  \/ CheckAssignment
  \/ DetectReturn

\* no sync runs while the conflicts are detected
InitDetect == Init /\ remote.courses = {} /\ remote.up

SpecDetect == InitDetect /\ [][NextDetect]_vars

\* ------------------------------------------- statements of a user session
MaxStatements == 2

\* ALTER TABLE ... ENABLE ROW LEVEL SECURITY
Tables == DOMAIN Policies

\* a row of a table: its id and its owner (the id of a profile is its user)
RowOf(table, id, u) == IF table = "profiles" THEN [id |-> u] ELSE [id |-> id, user_id |-> u]

\* every user has signed up and has one row in every table
FullDb == [table \in Tables |-> {RowOf(table, u, u) : u \in Users}]

\* the row with another owner
Reowned(table, row, u) == IF table = "profiles" THEN [id |-> u] ELSE [row EXCEPT !.user_id = u]

RlsError == "new row violates row-level security policy"

\* the statement is recorded with the rows it returned or changed
Statement(uid, cmd, relation, db, result, error) ==
  [n |-> access.n + 1, db |-> db, uid |-> uid, cmd |-> cmd, relation |-> relation,
   result |-> result, error |-> error]

\* .from(table).select('*') in the session of user uid
SelectRows(uid, table) ==
  /\ access.n < MaxStatements
  /\ access' = Statement(uid, "SELECT", table, access.db,
                         {row \in access.db[table] : Permits(table, "SELECT", uid, row)}, "")
  /\ UNCHANGED <<syncVars, connections, mutation, http, detect, api>>

\* .from(table).insert(row) in the session of user uid, for the owner u
InsertRow(uid, table, u) ==
  LET new == RowOf(table, 3, u)
  IN
  /\ access.n < MaxStatements
  /\ new \notin access.db[table]
  /\ access' =
       IF Permits(table, "INSERT", uid, new)
       THEN Statement(uid, "INSERT", table, [access.db EXCEPT ![table] = @ \cup {new}], {new}, "")
       ELSE Statement(uid, "INSERT", table, access.db, {}, RlsError)
  /\ UNCHANGED <<syncVars, connections, mutation, http, detect, api>>

\* .from(table).update({user_id: u}).eq('id', id) in the session of user uid: the
\* policy selects the rows and checks the new rows
UpdateRows(uid, table, id, u) ==
  LET old == {row \in access.db[table] : row.id = id /\ Permits(table, "UPDATE", uid, row)}
      new == {Reowned(table, row, u) : row \in old}
  IN
  /\ access.n < MaxStatements
  /\ access' =
       IF \A row \in new : Permits(table, "UPDATE", uid, row)
       THEN Statement(uid, "UPDATE", table,
                      [access.db EXCEPT ![table] = (@ \ old) \cup new], old, "")
       ELSE Statement(uid, "UPDATE", table, access.db, {}, RlsError)
  /\ UNCHANGED <<syncVars, connections, mutation, http, detect, api>>

\* .from(table).delete().eq('id', id) in the session of user uid
DeleteRows(uid, table, id) ==
  LET old == {row \in access.db[table] : row.id = id /\ Permits(table, "DELETE", uid, row)}
  IN
  /\ access.n < MaxStatements
  /\ access' = Statement(uid, "DELETE", table, [access.db EXCEPT ![table] = @ \ old], old, "")
  /\ UNCHANGED <<syncVars, connections, mutation, http, detect, api>>

\* CREATE VIEW user_dashboard_stats: one row per profile, joined to the rows of the
\* user in courses and assignments
user_dashboard_stats(db) ==
  {[user_id |-> p.id,
    total_courses |-> Cardinality({c \in db.courses : c.user_id = p.id}),
    assignments |-> Cardinality({a \in db.assignments : a.user_id = p.id})] :
     p \in db.profiles}

\* .from('user_dashboard_stats').select('*').eq('user_id', userId) in the session of
\* user uid. The view is not security_invoker: its query runs with the rights of its
\* owner, the owner of the tables, whom row-level security does not restrict; GRANT
\* ALL ON ALL TABLES gives the view to every authenticated user
SelectView(uid, userId) ==
  /\ access.n < MaxStatements
  /\ access' = Statement(uid, "SELECT", "user_dashboard_stats", access.db,
                         {row \in user_dashboard_stats(access.db) : row.user_id = userId}, "")
  /\ UNCHANGED <<syncVars, connections, mutation, http, detect, api>>

NextAccess ==
  \/ \E uid \in Users, table \in Tables : SelectRows(uid, table)
  \/ \E uid \in Users, table \in Tables, u \in Users : InsertRow(uid, table, u)
  \/ \E uid \in Users, table \in Tables, id \in 1..3, u \in Users : UpdateRows(uid, table, id, u)
  \/ \E uid \in Users, table \in Tables, id \in 1..3 : DeleteRows(uid, table, id)
  \/ \E uid \in Users, userId \in Users : SelectView(uid, userId)

\* two users have signed up and have rows in every table; no sync runs
InitAccess ==
  /\ InitSync
  /\ remote.courses = {} /\ remote.up
  /\ connections = {}
  /\ mutation = NoMutation
  /\ http = NoRequest
  /\ detect = NoDetect
  /\ access = [NoAccess EXCEPT !.db = FullDb]
  /\ api = NoCall

SpecAccess == InitAccess /\ [][NextAccess]_vars

\* ------------------------------------------------------ the Canvas client
MaxCalls == 2

\* the methods of CanvasAPI that go through request, and their endpoints
Endpoints ==
  [getProfile |-> "/users/self", getCourses |-> "/courses?enrollment_state=active&per_page=100",
   getAssignments |-> "/courses/1/assignments?per_page=100",
   getGrades |-> "/courses/1/enrollments?user_id=self&include[]=grades",
   testConnection |-> "/users/self"]

\* how a fetch settles: it rejects (no network), or it resolves to a response with a
\* status whose body is JSON or not
FetchAnswers ==
  {[rejected |-> TRUE, status |-> 0, json |-> FALSE]} \cup
  [rejected : {FALSE}, status : {200, 401, 404, 500}, json : BOOLEAN]

\* response.ok
ResponseOk(answer) == 200 <= answer.status /\ answer.status <= 299

\* a method of the client is called: request builds the url and calls fetch
ApiCall(method) ==
  /\ api.pc \in {"idle", "settled"}
  /\ api.calls < MaxCalls
  /\ api' = [api EXCEPT !.pc = "fetching", !.method = method, !.endpoint = Endpoints[method],
                        !.calls = @ + 1, !.fetches = @ + 1, !.outcome = "none", !.error = ""]
  /\ UNCHANGED <<syncVars, connections, mutation, http, detect, access>>

\* a request that fetches once more when the fetch rejected or the response is not ok
FetchSettledRetry ==
  /\ api.pc = "fetching"
  /\ \E answer \in FetchAnswers :
       api' = IF (answer.rejected \/ ~ResponseOk(answer)) /\ api.fetches = api.calls
              THEN [api EXCEPT !.fetches = @ + 1, !.answer = answer]
              ELSE [api EXCEPT !.pc = "settled", !.answer = answer,
                               !.outcome = IF answer.rejected \/ ~ResponseOk(answer) \/ ~answer.json
                                           THEN "threw" ELSE "returned"]
  /\ UNCHANGED <<syncVars, connections, mutation, http, detect, access>>

\* the fetch of request settles: a rejection, the Error of a response that is not ok
\* and the rejection of response.json() reach the catch, which logs and throws again;
\* testConnection turns what request threw into false and its return into true
FetchSettled ==
  /\ api.pc = "fetching"
  /\ \E answer \in FetchAnswers :
       LET error == IF answer.rejected THEN "fetch failed"
                    ELSE IF ~ResponseOk(answer) THEN "Canvas API error"
                    ELSE IF ~answer.json THEN "Unexpected token"
                    ELSE ""
       IN api' = [api EXCEPT
                    !.pc = "settled",
                    !.answer = answer,
                    !.logged = IF error # "" THEN @ + 1 ELSE @,
                    !.error = IF api.method = "testConnection" THEN "" ELSE error,
                    !.outcome = IF api.method = "testConnection"
                                THEN (IF error = "" THEN "true" ELSE "false")
                                ELSE (IF error = "" THEN "returned" ELSE "threw")]
  /\ UNCHANGED <<syncVars, connections, mutation, http, detect, access>>

NextClient ==
  \/ \E method \in DOMAIN Endpoints : ApiCall(method)
  \/ FetchSettled

\* no sync runs while the client is called
InitClient == Init /\ remote.courses = {} /\ remote.up

SpecClient == InitClient /\ [][NextClient]_vars

\* ------------------------------------------------------------------ claims
LogOf(r) == CHOOSE row \in logs : row.id = r
HasLog(r) == \E row \in logs : row.id = r

CoursesOfConn(c) == {row \in courses : row.canvas_connection_id = c}
AssignmentsOfConn(c) == {row \in assignments : \E cr \in CoursesOfConn(c) : row.course_id = cr.id}
GradesOfConn(c) == {row \in grades : \E cr \in CoursesOfConn(c) : row.course_id = cr.id}

Completed(c) == \E r \in RunIds : runs[r].pc = "done" /\ runs[r].conn = c

SeqRange(q) == {q[j] : j \in 1..Len(q)}

C2_RowsAndItems ==
  \A r \in RunIds :
    runs[r].pc = "done" =>
      LET d == runs[r].data
          c == runs[r].conn
      IN /\ HasLog(r)
         /\ LogOf(r).status = "completed"
         /\ LogOf(r).items_synced = Len(d.courses) + Len(d.assignments) + Len(d.grades)
         /\ \A cc \in SeqRange(d.courses) :
              \E row \in CoursesOfConn(c) : row.canvas_course_id = cc.id
         /\ \A ca \in SeqRange(d.assignments) :
              \E row \in AssignmentsOfConn(c) : row.canvas_assignment_id = ca.id
         /\ \A cg \in SeqRange(d.grades) :
              \E row \in GradesOfConn(c) : row.canvas_grade_id = cg.id

\* C3: a run in which Canvas refused a course still returns, its sync log row is
\* 'completed', the records of every course it did fetch are in the cache, and the
\* refused course is on record (the console line of getFullSyncData).
C3_PartialSuccess ==
  \A r \in RunIds :
    (runs[r].pc = "done" /\ \E k \in CourseIds : <<r, k>> \in console) =>
      LET d == runs[r].data
          c == runs[r].conn
      IN /\ HasLog(r) /\ LogOf(r).status = "completed"
         /\ \A cc \in SeqRange(d.courses) :
              \E row \in CoursesOfConn(c) : row.canvas_course_id = cc.id
         /\ \A ca \in SeqRange(d.assignments) :
              \E row \in AssignmentsOfConn(c) : row.canvas_assignment_id = ca.id
         /\ \A cg \in SeqRange(d.grades) :
              \E row \in GradesOfConn(c) : row.canvas_grade_id = cg.id

\* C4: a run in which an exception was thrown never returns normally, and at the
\* step at which it rethrows, its connection has status 'error' and its sync log
\* row has status 'failed' with the message of the exception.
C4_FailureMarked ==
  /\ [](\A r \in RunIds : runs[r].err # "" => runs[r].pc \in {"catch_log", "catch_conn", "thrown"})
  /\ [][\A r \in RunIds :
          (runs[r].pc # "thrown" /\ runs'[r].pc = "thrown") =>
             /\ runs[r].err # ""
             /\ conns'[runs[r].conn].status = "error"
             /\ \E row \in logs' : /\ row.id = r
                                   /\ row.status = "failed"
                                   /\ row.error_message = runs[r].err]_vars

C4_Witness ==
  /\ runs[1].pc = "thrown" /\ runs[1].err = "Canvas API error"
  /\ runs[2].pc = "thrown" /\ runs[2].err = "Failed to decrypt Canvas token"
  /\ conns[runs[1].conn].status = "error"

\* C5: when a tick of the background timer reads the connections of its user,
\* every due connection whose last sync run failed is synced by that tick:
\* it is started at once or queued behind the connection being synced.
LastRunFailed(c) ==
  \E r \in RunIds : /\ runs[r].conn = c
                    /\ runs[r].pc = "thrown"
                    /\ \A q \in RunIds : q > r => runs[q].conn # c

QueueIds(queue) == {queue[j].id : j \in 1..Len(queue)}

C5_FailedIsRetried ==
  [][(sched.pc = "select" /\ sched'.pc # "select") =>
       \A c \in ConnIds :
         (conns[c].user_id = sched.user /\ LastRunFailed(c) /\ IsDue(conns[c].last_sync)) =>
            c \in sched'.started \cup QueueIds(sched'.queue)]_vars

\* C6: a tick that has ended has started a sync for every connection of its user
\* whose last_sync was absent or more than two hours old when the tick read it, and
\* no tick starts a sync of a connection whose last_sync is at most two hours old.
C6_DueExactly ==
  /\ []((sched.pc = "idle" /\ sched.user # 0) => sched.due \subseteq sched.started)
  /\ [][\A c \in ConnIds :
          (c \in sched'.started /\ (c \notin sched.started \/ sched.pc = "idle")) =>
             IsDue(conns[c].last_sync)]_vars

RECURSIVE InOrder(_, _)
\* trail is a subsequence of order
InOrder(trail, order) ==
  IF trail = <<>> THEN TRUE
  ELSE IF order = <<>> THEN FALSE
  ELSE IF Head(trail) = Head(order) THEN InOrder(Tail(trail), Tail(order))
  ELSE InOrder(trail, Tail(order))

\* C7 as claimed: after the insert that opens its sync log row, the operations of a
\* run that has returned happened in the order courses fetched, assignments and
\* grades fetched, records upserted, sync log row written, last_sync updated.
C7_ClaimedOrder ==
  \A r \in RunIds :
    runs[r].pc = "done" =>
      InOrder(Tail(runs[r].trail), <<"courses", "course_data", "upsert", "log", "conn">>)

\* C7 amended: the sync log row is inserted before anything is fetched; then the
\* courses are fetched, then assignments and grades per course, then the records
\* are upserted, then the connection's last_sync is updated, and only after that
\* the sync log row is set to 'completed'.
C7_Order ==
  \A r \in RunIds :
    /\ InOrder(runs[r].trail, <<"log", "courses", "course_data", "upsert", "conn", "log">>)
    /\ runs[r].pc = "done" =>
         /\ Len(runs[r].trail) >= 4
         /\ runs[r].trail[1] = "log"
         /\ runs[r].trail[2] = "courses"
         /\ runs[r].trail[Len(runs[r].trail) - 1] = "conn"
         /\ runs[r].trail[Len(runs[r].trail)] = "log"
         /\ conns[runs[r].conn].last_sync # Null
    /\ (HasLog(r) /\ LogOf(r).status = "completed") => runs[r].pc = "done"

C7_Witness ==
  \E r \in RunIds :
    /\ runs[r].pc = "done"
    /\ runs[r].trail = <<"log", "courses", "course_data", "upsert", "conn", "log">>
    /\ LogOf(r).status = "completed"

InFlightOf(r) == {q \in inflight : q.run = r}

\* C8: the requests of one run outstanding at the same moment are never more than
\* the two of one Promise.all (the assignments and the grades request of a course).
C8_BoundedRequests ==
  \A r \in RunIds : Cardinality(InFlightOf(r)) <= 2

\* C9: a token encrypted under a salt and decrypted under the same salt and key
\* comes back as the original token.
C9_RoundTrip ==
  (vault.pc = "read" /\ vault.readSalt = vault.salt /\ vault.readKey = vault.key) =>
     (vault.out.ok /\ vault.out.value = vault.token)

\* C10: decrypting under another salt or key returns no token, and every failure
\* of decryptToken carries the generic message.
C10_WrongSaltFails ==
  vault.pc = "read" =>
    /\ (vault.readSalt # vault.salt \/ vault.readKey # vault.key) => ~vault.out.ok
    /\ ~vault.out.ok => vault.out.error = GenericError

C10_Witness ==
  /\ vault.pc = "read"
  /\ vault.readSalt # vault.salt
  /\ Len(vault.token) = MaxLen
  /\ ~vault.out.ok
  /\ vault.out.error = GenericError

\* C11: after any sequence of add-connection and remove-connection mutations the
\* table holds at most one connection per (user_id, canvas_url), and adding a
\* connection for a pair the table already holds fails and leaves the table as it was.
C11_UniquePerUserUrl ==
  /\ [](\A a, b \in connections :
          (a.user_id = b.user_id /\ a.canvas_url = b.canvas_url) => a = b)
  /\ [][(/\ mutation'.n = mutation.n + 1
         /\ mutation'.op = "add"
         /\ \E old \in connections :
              old.user_id = mutation'.user /\ old.canvas_url = mutation'.url)
        => (~mutation'.ok /\ connections' = connections)]_vars

\* an add was refused as a duplicate after a removal, and the pair's connection is there
C11_Witness ==
  /\ mutation.op = "add"
  /\ mutation.error = DuplicateKey
  /\ mutation.n = MaxMutations
  /\ \E row \in connections :
       row.user_id = mutation.user /\ row.canvas_url = mutation.url /\ row.id > 1

\* no run of syncCanvasData is between its call and its return or throw
Quiescent == \A r \in RunIds : runs[r].pc \in {"unused", "done", "thrown"}

UniqueRows(rows, cols) == \A a, b \in rows : KeyOf(cols, a) = KeyOf(cols, b) => a = b

\* the courses row of connection c for the Canvas course k
CourseRows(c, k) ==
  {row \in courses : row.canvas_connection_id = c /\ row.canvas_course_id = k}

\* the assignments rows of connection c for the Canvas assignment a of Canvas course k
AssignmentRows(c, k, a) ==
  {row \in assignments :
     /\ row.canvas_assignment_id = a
     /\ \E cr \in CourseRows(c, k) : row.course_id = cr.id}

Acts(r, pc) == runs[r].pc = pc /\ runs'[r] # runs[r]

Logged == {r \in RunIds : runs[r].pc \notin {"unused", "insert_log"}}

Failed(r) == runs[r].pc \in {"catch_log", "catch_conn", "thrown"}

\* C14: a run that fails after it upserted records leaves them in the cache: the
\* steps of its catch block change no row of courses, assignments and grades, and
\* every course the run upserted still has its row when the run has thrown.
C14_NoRollback ==
  /\ [](\A r \in RunIds : Failed(r) =>
          \A j \in 1..runs[r].items :
            CourseRows(runs[r].conn, runs[r].data.courses[j].id) # {})
  /\ [][\A r \in RunIds : (Failed(r) /\ runs'[r] # runs[r]) =>
          /\ courses' = courses
          /\ assignments' = assignments
          /\ grades' = grades]_vars

\* a run has thrown after it upserted a course that no other run wrote
C14_Witness ==
  \E r \in RunIds :
    /\ runs[r].pc = "thrown"
    /\ runs[r].items > 0
    /\ \A q \in RunIds \ {r} : runs[q].pc = "unused"
    /\ LogOf(r).status = "failed"
    /\ CourseRows(runs[r].conn, runs[r].data.courses[1].id) # {}

\* C15: every route handler answers a request without a valid session with 401 and
\* a JSON error body, whatever the body of the request, and sends nothing to the
\* backend for it.
C15_Unauthorized ==
  (http.pc = "responded" /\ ~Authenticated(http.session)) =>
    /\ http.res.status = 401
    /\ "error" \in DOMAIN http.res.body
    /\ http.sent = {}

\* the setup route has answered a request without a session whose body is no JSON
C15_ParsedFirst ==
  /\ http.pc = "responded"
  /\ http.route = "setup_proxy"
  /\ http.session = "none"
  /\ http.body = Malformed
  /\ http.res.status = 500

\* the texts of the form that are a URL once the scheme is put in front
IsUrl(t) == CleanUrl(t) = <<"http", "s://", "canvas.edu">>

\* a body the setup endpoint has to reject: a field is missing or empty, the URL is
\* malformed, or the token is too short
Invalid(body) ==
  \/ Falsy(body.canvas_url) \/ Falsy(body.canvas_name) \/ Falsy(body.api_token)
  \/ ~IsUrl(body.canvas_url.text)
  \/ Len(body.api_token.text) < MinTokenLength

\* C16: the setup endpoint answers 400 with a JSON error when a field is missing,
\* the URL is malformed or the token is too short, and then reports no connection.
C16_Rejects ==
  (/\ http.pc = "responded"
   /\ http.route = "setup"
   /\ Authenticated(http.session)
   /\ http.body.json
   /\ Invalid(http.body)) =>
    /\ http.res.status = 400
    /\ "error" \in DOMAIN http.res.body
    /\ "connection" \notin DOMAIN http.res.body

\* the stats of a body are all 0
Zeroed(body) ==
  /\ "stats" \in DOMAIN body
  /\ body.stats.total_courses = 0
  /\ body.stats.due_soon = 0
  /\ body.stats.completed_this_week = 0
  /\ body.stats.average_grade = 0

\* the backend could not be reached, or it says the user has no Canvas connection
NoConnection ==
  \/ http.response = Unreachable
  \/ http.route = "dashboard_data" /\ Ok(http.response) /\ ~http.response.data.valid

\* C17: when the backend cannot be reached or the user has no Canvas connection, the
\* dashboard endpoints answer 200 with connected: false and stats that are all 0.
C17_NotConnected ==
  (/\ http.pc = "responded"
   /\ http.route \in {"dashboard", "dashboard_data"}
   /\ Authenticated(http.session)
   /\ NoConnection) =>
    /\ http.res.status = 200
    /\ "connected" \in DOMAIN http.res.body
    /\ http.res.body.connected = FALSE
    /\ Zeroed(http.res.body)

\* an assignment that counts as due soon: it has a due date later than now and at
\* most 7 days ahead and its status is 'upcoming' or 'in_progress'
Qualifies(a) ==
  /\ a.due_date \notin {Null, InvalidDate}
  /\ now < a.due_date
  /\ a.due_date - now <= 7 * 24
  /\ a.status = "upcoming" \/ a.status = "in_progress"

Qualifying(list) == Cardinality({j \in 1..Len(list) : Qualifies(list[j])})

\* the dashboard data route has answered for a connected user
AnsweredConnected ==
  /\ http.pc = "responded"
  /\ http.route = "dashboard_data"
  /\ "connected" \in DOMAIN http.res.body
  /\ http.res.body.connected

\* C18 as stated: due_soon equals the number of cached assignments that are due
\* later than now and at most 7 days ahead with status 'upcoming' or 'in_progress'.
C18_DueSoonOfCached ==
  AnsweredConnected => http.res.body.stats.due_soon = Qualifying(http.cached)

\* C18: due_soon equals the number of qualifying assignments among those the
\* assignments fetch returned, which are the cached ones or, when the fetch failed,
\* none; assignments without a due date, already due, due later than 7 days or in
\* another status are not counted.
C18_DueSoonOfFetched ==
  AnsweredConnected =>
    /\ http.res.body.assignments \in {http.cached, <<>>}
    /\ http.res.body.stats.due_soon = Qualifying(http.res.body.assignments)

\* two assignments were fetched, one due exactly 7 days ahead that counts and one due
\* an hour later that does not
C18_Witness ==
  /\ AnsweredConnected
  /\ http.res.body.assignments =
       <<[due_date |-> now + OneWeek, status |-> "upcoming"],
         [due_date |-> now + OneWeek + 1, status |-> "upcoming"]>>
  /\ http.res.body.stats.due_soon = 1

\* the names of the fields in which a cached row and its remote assignment differ
Differing(local, canvasAssignment) ==
  {f \in {"title", "due_date", "points_possible", "description"} :
     local[f] # canvasAssignment[CASE f = "title" -> "name" [] f = "due_date" -> "due_at" [] OTHER -> f]}

\* the conflicts reported for a cached row
ReportedFor(local) ==
  {j \in 1..Len(detect.conflicts) : detect.conflicts[j].local = local}

Range(q) == {q[j] : j \in 1..Len(q)}

\* C19: for every cached assignment with a remote counterpart, detectConflicts
\* reports a conflict exactly when title, due date, points possible or description
\* differs, and the conflictFields are exactly the names of the fields that differ.
C19_ReportsDiffering ==
  detect.pc = "returned" =>
    \A i \in 1..Len(detect.assignments) :
      detect.canvas[i] # NotFound =>
        LET differing == Differing(detect.assignments[i], detect.canvas[i])
            reported == ReportedFor(detect.assignments[i])
        IN /\ (differing # {}) <=> (reported # {})
           /\ \A j \in reported : Range(detect.conflicts[j].conflictFields) = differing

\* the owner of a row of a table or of the view
OwnerOf(relation, row) == IF relation = "profiles" THEN row.id ELSE row.user_id

\* C20: row-level security scopes every statement to auth.uid() = user_id: the rows
\* a user reads, inserts, updates or deletes are never rows of another user.
C20_OwnRowsOnly ==
  \A row \in access.result : OwnerOf(access.relation, row) = access.uid

\* the fetch of the last call failed: it rejected, or its response is not ok
Failure(answer) == answer.rejected \/ ~ResponseOk(answer)

SyncedCourses(r) == {runs[r].data.courses[j].id : j \in 1..Len(runs[r].data.courses)}

\* C24: in getFullSyncData a course is all or nothing: a course whose assignments or
\* grades request failed is not in the sync data, with none of its assignments and
\* grades, and every assignment and grade of the sync data carries the id of a course
\* of the sync data.
C24_AllOrNothing ==
  \A r \in RunIds :
    /\ \A j \in 1..Len(runs[r].data.assignments) :
         runs[r].data.assignments[j].course_id \in SyncedCourses(r)
    /\ \A j \in 1..Len(runs[r].data.grades) :
         runs[r].data.grades[j].course_id \in SyncedCourses(r)
    /\ \A k \in CourseIds : <<r, k>> \in console => k \notin SyncedCourses(r)

\* a run holds the data of course 1 and has logged the failure of course 2
C24_Witness ==
  \E r \in RunIds :
    /\ runs[r].pc = "done"
    /\ SyncedCourses(r) = {1}
    /\ Len(runs[r].data.assignments) = 2
    /\ <<r, 2>> \in console

\* the status the claim gives an assignment row by its dates
PriorityStatus(row) ==
  CASE row.graded_at # Null -> "completed"
    [] row.graded_at = Null /\ row.submitted_at # Null -> "submitted"
    [] row.graded_at = Null /\ row.submitted_at = Null /\ row.due_date # Null
       /\ row.due_date < now -> "overdue"
    [] OTHER -> "upcoming"

\* C25: the status a sync run stores for an assignment is 'completed' if it has
\* graded_at, otherwise 'submitted' if it has submitted_at, otherwise 'overdue' if its
\* due date is earlier than now, otherwise 'upcoming'; never 'in_progress'.
C25_StatusPriority ==
  \A row \in assignments :
    /\ row.status = PriorityStatus(row)
    /\ row.status # "in_progress"

\* the cache holds an overdue assignment, a submitted one that is past its due date
\* and a completed one that was also submitted
C25_Witness ==
  /\ \E row \in assignments : row.status = "overdue"
  /\ \E row \in assignments :
       row.status = "submitted" /\ row.due_date # Null /\ row.due_date < now
  /\ \E row \in assignments : row.status = "completed" /\ row.submitted_at # Null

\* the positions of the connections after the awaited one that are due when the loop
\* reaches them
DueAfter == {j \in 2..Len(sched.queue) : IsDue(sched.queue[j].last_sync)}

\* C27: in scheduleBackgroundSync a sync that threw does not end the call: the loop goes
\* on to the next due connection of the selection and starts its sync, and the call
\* ends normally when no due connection is left.
C27_FailureDoesNotStop ==
  [][(sched.pc = "wait" /\ runs[sched.run].pc = "thrown" /\ sched' # sched) =>
       IF DueAfter = {}
       THEN sched'.pc = "idle"
       ELSE LET j == CHOOSE j \in DueAfter : \A other \in DueAfter : j <= other
                next == sched.queue[j].id
            IN /\ sched'.pc = "wait"
               /\ sched'.run # sched.run
               /\ sched'.started = sched.started \cup {next}
               /\ runs'[sched'.run] = Begin(next)
               /\ runs[sched'.run] = NoRun]_vars

\* the sync of the first connection threw and the sync of the second one was started
\* by the same call
C27_Witness ==
  /\ sched.pc = "wait"
  /\ sched.started = {1, 2}
  /\ runs[sched.run].conn = 2
  /\ \E r \in RunIds : runs[r].conn = 1 /\ runs[r].pc = "thrown"

\* the run that takes the step
Acting(r) == runs'[r] # runs[r]

\* the ids Canvas gave the assignments in the sync data of a run
SyncedAssignments(r) ==
  {runs[r].data.assignments[j].id : j \in 1..Len(runs[r].data.assignments)}

\* C26: a step of a sync run deletes no cache row and keeps the fields it does not sync:
\* every course row is still there with its id, color, is_favorite and credits, every
\* assignment and grade row is still there, and the rows of courses and assignments
\* that are not in the sync data of the run are unchanged.
C26_KeepsUnsynced ==
  [][\A r \in RunIds : Acting(r) =>
       /\ \A old \in courses : \E new \in courses' :
            /\ new.id = old.id
            /\ new.color = old.color
            /\ new.is_favorite = old.is_favorite
            /\ new.credits = old.credits
       /\ \A old \in assignments : \E new \in assignments' : new.id = old.id
       /\ \A old \in grades : \E new \in grades' : new.id = old.id
       /\ \A old \in courses : old.canvas_course_id \notin SyncedCourses(r) => old \in courses'
       /\ \A old \in assignments :
            old.canvas_assignment_id \notin SyncedAssignments(r) => old \in assignments'
       /\ Cardinality(courses') >= Cardinality(courses)
       /\ Cardinality(assignments') >= Cardinality(assignments)]_vars

\* a finished run has written a newer name into a course the user had edited, and the
\* row of a course Canvas no longer returns is still in the cache with its assignments
C26_Witness ==
  \E r \in RunIds : \E row \in courses : \E gone \in courses :
    /\ runs[r].pc = "done"
    /\ row.canvas_course_id \in SyncedCourses(r)
    /\ row.color = "#ef4444" /\ row.is_favorite /\ row.credits = 3
    /\ row.name = 1
    /\ gone.canvas_course_id \notin SyncedCourses(r)
    /\ gone.canvas_course_id \notin remote.courses
    /\ \E a \in assignments : a.course_id = gone.id

\* two runs of connection c have ended while Canvas was reachable, refused no course
\* and did not change
TwoEnded(r1, r2, c) ==
  /\ r1 # r2
  /\ runs[r1].conn = c /\ runs[r2].conn = c
  /\ runs[r1].pc \in {"done", "thrown"} /\ runs[r2].pc \in {"done", "thrown"}
  /\ changes = 0 /\ remote.up /\ remote.err = {}

\* the cache of connection c holds what one run writes: one course row for every course
\* of Canvas and one assignment row for every assignment of it
SingleRunCache(c) ==
  /\ \A k \in remote.courses :
       Cardinality({row \in courses :
                      row.canvas_connection_id = c /\ row.canvas_course_id = k}) = 1
  /\ \A row \in courses : row.canvas_connection_id = c =>
       /\ row.canvas_course_id \in remote.courses
       /\ \A id \in AsgOf(row.canvas_course_id) :
            Cardinality({a \in assignments :
                           a.course_id = row.id /\ a.canvas_assignment_id = id}) = 1
       /\ \A a \in assignments : a.course_id = row.id =>
            a.canvas_assignment_id \in AsgOf(row.canvas_course_id)
  /\ \A g1 \in grades : \A g2 \in grades :
       KeyOf(GradeCols, g1) = KeyOf(GradeCols, g2) => g1 = g2

\* C22: when two sync runs of one connection interleave against unchanged remote data,
\* the cache ends without duplicate rows and with the contents a single run leaves,
\* both sync logs end 'completed' and the connection ends 'connected'.
C22_InterleavedRuns ==
  \A r1 \in RunIds : \A r2 \in RunIds : \A c \in ConnIds :
    TwoEnded(r1, r2, c) =>
      /\ SingleRunCache(c)
      /\ \A log \in logs : log.id \in {r1, r2} => log.status = "completed"
      /\ conns[c].status = "connected"

\* the part of C22 that the store decides: two interleaved runs that both returned
\* leave the cache of a single run
C22_WhenBothReturn ==
  \A r1 \in RunIds : \A r2 \in RunIds : \A c \in ConnIds :
    (TwoEnded(r1, r2, c) /\ runs[r1].pc = "done" /\ runs[r2].pc = "done") =>
      /\ SingleRunCache(c)
      /\ \A log \in logs : log.id \in {r1, r2} => log.status = "completed"
      /\ conns[c].status = "connected"

\* C23: no sync log row stays 'syncing' once its run has ended: when syncCanvasData has
\* returned or thrown, the row it inserted has status 'completed' or 'failed' and a
\* completed_at timestamp, and a row never moves from 'completed' or 'failed' to
\* another status.
C23_LogSettled ==
  /\ [](\A r \in RunIds : runs[r].pc \in {"done", "thrown"} =>
          \E row \in logs : /\ row.id = r
                            /\ row.status \in {"completed", "failed"}
                            /\ row.completed_at # Null)
  /\ [][\A old \in logs : old.status \in {"completed", "failed"} =>
          \E new \in logs' : new.id = old.id /\ new.status = old.status]_vars

====
